---- MODULE Spec2Model ----
(***************************************************************************)
(* Koala noise-suppression SDK: the streaming engine contract declared in  *)
(* include/pv_koala.h and the bindings that drive it (Android Koala.java,  *)
(* iOS Koala.swift, web koala.ts in its current and its earlier version).  *)
(* One instance is modelled; the binding that owns it is chosen in Init.   *)
(***************************************************************************)
EXTENDS Integers, Sequences, FiniteSets, TLC

(* ------------------------------ bounds --------------------------------- *)
FrameLength == 2          \* pv_koala_frame_length(): engine constant, > 0
DelaySample == 1          \* pv_koala_delay_sample(): engine constant, >= 0
MaxFrames == 2            \* frames consumed per epoch (between resets)
MaxQueue == 1             \* calls waiting on the web binding's mutex

Pad == 0                  \* value of a not-yet-meaningful output sample

Bindings == {"android", "ios", "web", "webOld"}
SyncBindings == {"android", "ios"}
WebBindings == {"web", "webOld"}

FailStatuses == {"ACTIVATION_ERROR"}
Statuses == {"SUCCESS"} \cup FailStatuses

Samples == {1, 2}         \* input sample values
Frame(v, n) == [i \in 1..n |-> ((v + i) % Cardinality(Samples)) + 1]
ValidFrames == {Frame(v, FrameLength) : v \in Samples}
\* a frame of the wrong length: one sample short
BadFrames == {Frame(1, FrameLength - 1)}
AnyFrames == ValidFrames \cup BadFrames
PadFrame == [i \in 1..FrameLength |-> Pad]
GarbageFrames == {PadFrame, Frame(1, FrameLength)}

(* ------------------- the engine (pv_koala.h contract) ------------------ *)
\* construction-time state of an engine object whose model delays the
\* output by d samples: d samples of pad history, no context
EngineOf(d) == [hist |-> [i \in 1..d |-> Pad], ctx |-> 0]

\* construction-time engine state of the default model
EngineInit == EngineOf(DelaySample)

\* the enhanced value of sample x given the previous input sample ctx:
\* a stream transform, the output depends on earlier input
Enhance(ctx, x) == ((x + ctx) % 3) + 1

RECURSIVE Feed(_, _, _)
Feed(hist, ctx, pcm) ==
    IF pcm = <<>> THEN [hist |-> hist, ctx |-> ctx]
    ELSE Feed(Append(hist, Enhance(ctx, Head(pcm))), Head(pcm), Tail(pcm))

\* pv_koala_process on a live object: append the frame to the history and
\* emit the earliest FrameLength not-yet-emitted samples
pv_koala_process(e, pcm) ==
    LET f == Feed(e.hist, e.ctx, pcm)
    IN  [eng |-> [hist |-> SubSeq(f.hist, FrameLength + 1, Len(f.hist)),
                  ctx |-> f.ctx],
         out |-> SubSeq(f.hist, 1, FrameLength)]

\* pv_koala_reset on a live object: back to the construction-time state
pv_koala_reset(e) == EngineOf(Len(e.hist))

\* what one native process call can do: on a live object it succeeds, or
\* fails leaving the object and the output buffer untouched; on a destroyed
\* object the behaviour is undefined
NativeProcess(e, pcm, dead) ==
    IF dead
    THEN {[status |-> s, eng |-> e, wrote |-> TRUE, out |-> o] :
              s \in Statuses, o \in GarbageFrames}
    ELSE {[status |-> "SUCCESS", eng |-> pv_koala_process(e, pcm).eng,
           wrote |-> TRUE, out |-> pv_koala_process(e, pcm).out]}
         \cup {[status |-> s, eng |-> e, wrote |-> FALSE, out |-> <<>>] :
                  s \in FailStatuses}

\* pv_koala_delete: one more run of the destructor on the object
Destroy(n) == IF n < 2 THEN n + 1 ELSE n

\* what one native reset call can do
NativeReset(e, dead) ==
    IF dead
    THEN {[status |-> s, eng |-> e] : s \in {"SUCCESS", "INVALID_ARGUMENT"}}
    ELSE {[status |-> "SUCCESS", eng |-> pv_koala_reset(e)]}

\* the stream a freshly constructed engine emits for a sequence of frames
RECURSIVE FreshRun(_, _)
FreshRun(e, frames) ==
    IF frames = <<>> THEN <<>>
    ELSE <<pv_koala_process(e, Head(frames)).out>>
         \o FreshRun(pv_koala_process(e, Head(frames)).eng, Tail(frames))

RECURSIVE Flatten(_)
Flatten(frames) ==
    IF frames = <<>> THEN <<>> ELSE Head(frames) \o Flatten(Tail(frames))

RECURSIVE CountNonPad(_)
CountNonPad(s) ==
    IF s = <<>> THEN 0
    ELSE (IF Head(s) = Pad THEN 0 ELSE 1) + CountNonPad(Tail(s))

\* status code -> error kind of the binding
\* a translation that reports every status as a runtime error
StatusKindRuntime(s) == "RuntimeError"

StatusKind(s) ==
    CASE s = "RUNTIME_ERROR" -> "RuntimeError"
      [] s = "ACTIVATION_ERROR" -> "ActivationError"
      [] s = "INVALID_ARGUMENT" -> "InvalidArgumentError"
      [] s = "INVALID_STATE" -> "InvalidStateError"
      [] OTHER -> "KoalaError"

(* ------------------ the engine's diagnostic message stack -------------- *)
MaxStackDepth == 8        \* the engine keeps at most this many messages

\* number of messages a failure of the given call with the given status
\* leaves: the deepest case fills the stack
StackDepth(op, status) ==
    CASE op = "init" /\ status = "INVALID_ARGUMENT" -> 1
      [] op = "init" -> MaxStackDepth
      [] op = "process" -> 2
      [] OTHER -> 3

\* the messages a failing call leaves in the engine: each names the call
\* and status it comes from
ErrorStack(op, status) ==
    [i \in 1..StackDepth(op, status) |->
        [op |-> op, status |-> status, at |-> i]]

\* pv_get_error_stack: a copy of the engine's stack as the failing call
\* left it, handed to the binding
pv_get_error_stack(stk) == [i \in 1..Len(stk) |-> stk[i]]

(* ------------------------------ state ---------------------------------- *)
VARIABLES
    binding,    \* which binding owns the instance
    handle,     \* the binding's handle field: "unset", "live", "null"; and
                \* "releasing" while the earlier web release() is suspended
    eng,        \* state of the native engine object
    destroyed,  \* times the native destructor ran on the object: 0, 1 or
                \* 2 for "more than once"
    errorStack, \* the engine's message stack, as the last failing native
                \* call left it
    waiting,    \* web: calls queued on _processMutex, oldest first
    active,     \* calls currently executing inside the native engine
    locked,     \* web: _processMutex is held
    inBuf,      \* web: contents of the input buffer in the WASM heap
    outBuf,     \* web: contents of the output buffer in the WASM heap
    last,       \* outcome of the most recently completed call
    curIn,      \* frames consumed since construction / the last reset
    curOut,     \* frames delivered since construction / the last reset
    prevIn,     \* frames consumed in the epoch before the last reset
    prevOut,    \* frames delivered in the epoch before the last reset
    clean,      \* no failed or invalid call in the current epoch
    prevClean,  \* same for the epoch before the last reset
    wasReset,   \* a reset has completed on the live engine
    insts,      \* several instances side by side: each one's lifecycle
                \* state, model, engine object and stored delaySample field
    staticDelay,\* earlier web binding: the static field Koala._delaySample
    answer,     \* what the most recent delaySample query returned, and for
                \* which instance
    demo,       \* the file demo: its input, its loop variables and the
                \* chunks of the engine's output stream written so far
    rec,        \* the recording demos: the app's flags, its reader and
                \* the samples written to the reference and enhanced files
    ord,        \* web binding, calls in issue order: the calls issued, the
                \* ones waiting on the mutex and the frames delivered
    hnd         \* the web worker handler: its koala variable, the
                \* requests it is awaiting and the messages it posted

streamVars == <<binding, handle, eng, destroyed, errorStack, waiting, active,
                locked, inBuf, outBuf, last, curIn, curOut, prevIn, prevOut,
                clean, prevClean, wasReset>>

instVars == <<insts, staticDelay, answer>>

\* state of the scenarios other than the single-instance stream
otherVars == <<instVars, demo, rec, ord, hnd>>

\* what the operations of one scenario leave alone
instRest == <<streamVars, demo, rec, ord, hnd>>
demoRest == <<streamVars, instVars, rec, ord, hnd>>
recRest == <<streamVars, instVars, demo, ord, hnd>>
ordRest == <<streamVars, instVars, demo, rec, hnd>>
hndRest == <<streamVars, instVars, demo, rec, ord>>

vars == <<streamVars, otherVars>>

engineVars == <<eng, destroyed, errorStack>>
webVars == <<waiting, locked, inBuf, outBuf>>
histVars == <<curIn, curOut, prevIn, prevOut, clean, prevClean, wasReset>>

NoCause == [op |-> "none", status |-> "SUCCESS"]

NoCall == [op |-> "none", errs |-> <<>>, frames |-> 0, outLen |-> 0,
           native |-> FALSE, pcmLen |-> 0, onDeleted |-> FALSE,
           changed |-> FALSE, engFail |-> FALSE, stack |-> <<>>,
           cause |-> NoCause, prevCause |-> NoCause, key |-> {},
           device |-> {}, worker |-> FALSE, module |-> "none"]

Outcome(op, errs, frames, native, pcm, onDeleted, changed, engFail) ==
    [op |-> op, errs |-> errs, frames |-> Len(frames),
     outLen |-> IF frames = <<>> THEN 0 ELSE Len(Head(frames)),
     native |-> native, pcmLen |-> Len(pcm), onDeleted |-> onDeleted,
     changed |-> changed, engFail |-> engFail, stack |-> <<>>,
     cause |-> NoCause, prevCause |-> NoCause, key |-> {}, device |-> {},
     worker |-> FALSE, module |-> "none"]

\* the engine's stack after a native call that returned the given status:
\* a failure overwrites it, a success leaves it alone
pv_set_error(op, status) ==
    IF status = "SUCCESS" THEN errorStack ELSE ErrorStack(op, status)

\* getMessageStack of the web binding: pv_get_error_stack, then one string
\* pushed per message up to the reported depth, into a new array
getMessageStackSkipFirst(stk) ==
    LET got == pv_get_error_stack(stk)
    IN  [i \in 1..(Len(got) - 1) |-> got[i + 1]]
getMessageStackKeeping(stk) == last.stack \o pv_get_error_stack(stk)
getMessageStack(stk) ==
    LET got == pv_get_error_stack(stk)
    IN  [i \in 1..Len(got) |-> got[i]]

\* getMessageStack of the iOS binding: the same, into a new [String]
IosGetMessageStackKeeping(stk) == last.stack \o pv_get_error_stack(stk)
IosGetMessageStack(stk) ==
    LET got == pv_get_error_stack(stk)
    IN  [i \in 1..Len(got) |-> got[i]]

\* the Android binding receives the stack inside the exception the native
\* layer throws
JniMessageStack(stk) == pv_get_error_stack(stk)

\* the message stack the binding attaches to the error of a native failure;
\* the earlier web binding reports a string and no stack
MessageStack(b, stk) ==
    CASE b = "web" -> getMessageStack(stk)
      [] b = "ios" -> IosGetMessageStack(stk)
      [] b = "android" -> JniMessageStack(stk)
      [] OTHER -> <<>>

\* the outcome o of a call whose native step returned status: a failure
\* carries the message stack and records its cause
Report(o, op, status) ==
    IF status = "SUCCESS" THEN o
    ELSE [o EXCEPT !.stack = MessageStack(binding, errorStack'),
                   !.cause = [op |-> op, status |-> status]]

Task(op, pcm, errs) ==
    [op |-> op, pcm |-> pcm, errs |-> errs, onDeleted |-> destroyed > 0]

(* ------------------- several instances side by side ------------------- *)
Insts == {1, 2}
Models == {"default", "other"}

\* pv_koala_delay_sample: the delay of an engine object, a property of the
\* model it was created from
pv_koala_delay_sample(m) == IF m = "default" THEN DelaySample ELSE DelaySample + 1

\* a static field before any constructor has assigned it
Unassigned == 0 - 1

NoInst == [st |-> "none", model |-> "default", eng |-> EngineInit, field |-> Unassigned]
NoAnswer == [inst |-> 0, value |-> Unassigned]

InstIdle ==
    /\ insts = [i \in Insts |-> NoInst]
    /\ staticDelay = Unassigned
    /\ answer = NoAnswer

Min(a, b) == IF a < b THEN a ELSE b

(* ----------------------------- file demo ------------------------------- *)
MaxTotalSamples == 5      \* samples in the input file
MaxDelaySamples == 3      \* pv_koala_delay_sample of the demo's engine
MaxFrameLength == 3       \* pv_koala_frame_length of the demo's engine

Int32Max == 2147483647    \* largest value of start_sample and end_sample
HugeFrame == 1073741824   \* a frame length that takes end_sample to the
                          \* end of its range within two frames

DemoInput(t, d, f) ==
    [total_samples |-> t, delay_samples |-> d, frame_length |-> f]

\* input files and engines the demo is run on: all small ones, and files
\* whose last frame ends beyond the range of end_sample
DemoInputs ==
    {DemoInput(t, d, f) : t \in 0..MaxTotalSamples, d \in 0..MaxDelaySamples,
                          f \in 1..MaxFrameLength}
    \cup {DemoInput(HugeFrame + 1, d, HugeFrame) : d \in 0..MaxDelaySamples}

DemoStart(in) ==
    [pc |-> "loop", in |-> in, start_sample |-> 0, read |-> 0, zeros |-> 0,
     written |-> <<>>]

\* the demo is not running
DemoIdle == [DemoStart(DemoInput(0, 0, 1)) EXCEPT !.pc = "idle"]

(* --------------------------- recording demos --------------------------- *)
MaxRecorded == 2          \* frames the microphone delivers in one recording
MaxRecordings == 2        \* recordings made with one instance

RecApps == {"ios", "android"}

\* a demo app whose instance has just been created: nothing is recording
RecStart(app, f, d) ==
    [app |-> app, frame_length |-> f, delay |-> d,
     ui |-> "idle",          \* Android: the UI thread is inside stop()
     started |-> FALSE, stop |-> FALSE, stopped |-> FALSE,
     reader |-> "none",      \* Android: position of the reader thread
     readers |-> 0,          \* Android: reader threads running read()
     recording |-> FALSE,    \* iOS: isRecording
     count |-> 0,            \* recordings begun
     frames |-> 0,           \* frames delivered in this recording
     total |-> 0,            \* samples written to the reference file
     enh |-> 0,              \* samples written to the enhanced file
     dirty |-> FALSE,        \* frames processed since creation or reset
     unreset |-> FALSE,      \* a recording began on a dirty engine
     failed |-> FALSE,       \* this recording met an exception
     phase |-> "ready"]      \* "ready", "recording", "stopped", "threw"

\* the recording demos are not running
RecIdle == [RecStart("ios", 1, 0) EXCEPT !.phase = "off"]

(* ------------------- web binding: calls in issue order ----------------- *)
MaxCalls == 3             \* process and reset calls issued on the instance

\* a created web instance on which nothing has been called yet
OrdStart ==
    [issued |-> <<>>,        \* the calls, in the order they were issued
     waiting |-> <<>>,       \* calls queued on _processMutex, oldest first
     active |-> <<>>,        \* the call holding the mutex
     eng |-> EngineInit, inBuf |-> PadFrame, outBuf |-> PadFrame,
     applied |-> <<>>,       \* the calls whose native call has run
     delivered |-> <<>>,     \* the frames handed to processCallback
     depth |-> 0,            \* most calls that waited at the same time
     failed |-> FALSE,       \* a native call reported a failure
     phase |-> "on"]

OrdIdle == [OrdStart EXCEPT !.phase = "off"]

(* ------------------------- the web worker handler ---------------------- *)
MaxMessages == 4          \* requests posted to one worker

HandlerVersions == {"web", "webOld"}
Commands == {"init", "process", "reset", "release", "other"}

\* the value of the handler's koala variable before init and after release
Null == 0

\* a worker that has just loaded the handler script
HndStart(v) ==
    [version |-> v,
     koala |-> Null,         \* the instance held, numbered by creation
     created |-> 0,          \* instances Koala._init has returned
     live |-> {},            \* instances created and not yet released
     initing |-> 0,          \* init requests suspended at Koala._init
     releasing |-> {},       \* instances a suspended release request frees
     closed |-> FALSE,       \* close() has been called
     seen |-> 0,             \* requests received
     cmd |-> "none",         \* the request the latest step belongs to
     posted |-> <<>>]        \* the messages that step posted

HndIdle == [HndStart("web") EXCEPT !.cmd = "off"]

Init ==
    /\ binding \in Bindings
    /\ handle = "unset"
    /\ eng = EngineInit
    /\ destroyed = 0
    /\ errorStack = <<>>
    /\ waiting = <<>>
    /\ active = <<>>
    /\ locked = FALSE
    /\ inBuf \in GarbageFrames
    /\ outBuf = inBuf
    /\ last = NoCall
    /\ curIn = <<>>
    /\ curOut = <<>>
    /\ prevIn = <<>>
    /\ prevOut = <<>>
    /\ clean = TRUE
    /\ prevClean = FALSE
    /\ wasReset = FALSE
    /\ InstIdle
    /\ demo = DemoIdle
    /\ rec = RecIdle
    /\ ord = OrdIdle
    /\ hnd = HndIdle

(* ----------------------- bookkeeping of the stream --------------------- *)
\* a frame went through the live engine and its output reached the caller
Consumed(pcm, out) ==
    /\ curIn' = IF clean THEN Append(curIn, pcm) ELSE curIn
    /\ curOut' = IF clean THEN Append(curOut, out) ELSE curOut
    /\ UNCHANGED <<prevIn, prevOut, clean, prevClean, wasReset>>

\* a call failed, was invalid or ran on a destroyed object: the epoch is no
\* longer a plain stream and is not recorded further
Spoiled ==
    /\ clean' = FALSE
    /\ curIn' = <<>>
    /\ curOut' = <<>>
    /\ prevIn' = <<>>
    /\ prevOut' = <<>>
    /\ prevClean' = FALSE
    /\ UNCHANGED wasReset

\* a reset completed on the live engine: a new epoch starts
NewEpoch ==
    /\ prevIn' = IF clean THEN curIn ELSE <<>>
    /\ prevOut' = IF clean THEN curOut ELSE <<>>
    /\ prevClean' = clean
    /\ curIn' = <<>>
    /\ curOut' = <<>>
    /\ clean' = TRUE
    /\ wasReset' = TRUE

(* -------------------------- construction ------------------------------- *)
\* device strings, as sequences of characters
DevBest == <<"b", "e", "s", "t">>
DevGpu == <<"g", "p", "u">>
DevCpu == <<"c", "p", "u">>
DevCpu1 == DevCpu \o <<":", "1">>
Digits == {"0", "1", "2", "9"}

\* an argument that may be absent is the empty set, or the set of its value
AccessKeys == {{}, {""}, {"good"}, {"bad"}}
Devices ==
    {{}, {<<>>}, {DevBest}, {DevGpu}, {DevGpu \o <<":", "0">>}, {DevCpu},
     {DevCpu \o <<":", "2">>}, {DevCpu \o <<":">>},
     {DevGpu \o <<":", "x">>}, {<<"i", "n", "v", ":", "9">>}}

Given(arg) == CHOOSE x \in arg : TRUE

IsUInt(str) == str # <<>> /\ \A i \in 1..Len(str) : str[i] \in Digits

\* str is name, a colon and an unsigned integer
IsIndexed(str, name) ==
    /\ Len(str) > Len(name) + 1
    /\ SubSeq(str, 1, Len(name)) = name
    /\ str[Len(name) + 1] = ":"
    /\ IsUInt(SubSeq(str, Len(name) + 2, Len(str)))

\* the device grammar of the engine: best | gpu | gpu:<uint> | cpu |
\* cpu:<uint>
DeviceGrammar(str) ==
    \/ str \in {DevBest, DevGpu, DevCpu}
    \/ IsIndexed(str, DevGpu)
    \/ IsIndexed(str, DevCpu)

\* /^cpu(:\d+)?$/
CPU_DEVICE_REGEX(str) == str = DevCpu \/ IsIndexed(str, DevCpu)

\* the statuses the native initialiser can return for an access key and a
\* device string
pv_koala_init(key, dev) ==
    IF key = "" \/ ~DeviceGrammar(dev) THEN {"INVALID_ARGUMENT"}
    ELSE IF key = "bad" THEN {"ACTIVATION_ERROR"}
    ELSE {"SUCCESS", "RUNTIME_ERROR"}

\* isAccessKeyValid of the web utilities: a present, non-blank key
isAccessKeyValid(arg) == arg # {} /\ Given(arg) # ""

\* a create that fails in the binding, before the native initialiser
Rejected(kind, arg, dev, wrk) ==
    /\ last' = [Outcome("create", <<kind>>, <<>>, FALSE, <<>>, FALSE, FALSE,
                         FALSE)
                EXCEPT !.key = arg, !.device = dev, !.worker = wrk,
                       !.prevCause = last.cause]
    /\ UNCHANGED <<handle, errorStack>>

\* a create that reaches the native initialiser of the library mod with the
\* key and the device string str: on success the instance exists, on failure
\* the error has the kind kindOf[status] and the binding's copy of the
\* message stack
NativeInit(arg, dev, wrk, str, typed, mod) ==
    \E status \in pv_koala_init(Given(arg), str) :
       /\ errorStack' = pv_set_error("init", status)
       /\ handle' = IF status = "SUCCESS" THEN "live" ELSE "unset"
       /\ last' = [Report(Outcome("create",
                                  IF status = "SUCCESS" THEN <<>>
                                  ELSE IF typed THEN <<StatusKind(status)>>
                                  ELSE <<"Error">>,
                                  <<>>, TRUE, <<>>, FALSE, FALSE,
                                  status # "SUCCESS"),
                          "init", status)
                   EXCEPT !.key = arg, !.device = dev, !.worker = wrk,
                          !.module = mod, !.prevCause = last.cause]

\* Koala.Builder.build of the Android binding
AndroidBuildUnchecked ==
    /\ binding = "android" /\ handle = "unset"
    /\ \E arg \in AccessKeys \ {{}}, dev \in Devices, modelOk \in BOOLEAN :
          IF ~modelOk THEN Rejected("IOError", arg, dev, FALSE)
          ELSE NativeInit(arg, dev, FALSE,
                          IF dev = {} THEN DevBest ELSE Given(dev), TRUE,
                          "native")
    /\ UNCHANGED <<otherVars, binding, eng, destroyed, webVars, active, histVars>>
AndroidBuild ==
    /\ binding = "android" /\ handle = "unset"
    /\ \E arg \in AccessKeys, dev \in Devices, modelOk \in BOOLEAN :
          IF arg = {} \/ Given(arg) = ""
          THEN Rejected("InvalidArgumentError", arg, dev, FALSE)
          ELSE IF ~modelOk THEN Rejected("IOError", arg, dev, FALSE)
          ELSE NativeInit(arg, dev, FALSE,
                          IF dev = {} THEN DevBest ELSE Given(dev), TRUE,
                          "native")
    /\ UNCHANGED <<otherVars, binding, eng, destroyed, webVars, active, histVars>>

\* Koala.init of the iOS binding; the access key is not optional
IosInit ==
    /\ binding = "ios" /\ handle = "unset"
    /\ \E arg \in AccessKeys \ {{}}, dev \in Devices, modelOk \in BOOLEAN :
          IF Given(arg) = ""
          THEN Rejected("InvalidArgumentError", arg, dev, FALSE)
          ELSE IF ~modelOk THEN Rejected("IOError", arg, dev, FALSE)
          ELSE NativeInit(arg, dev, FALSE,
                          IF dev = {} THEN DevCpu1 ELSE Given(dev), TRUE,
                          "native")
    /\ UNCHANGED <<otherVars, binding, eng, destroyed, webVars, active, histVars>>

\* the device string Koala._init of the web binding hands to initWasm: best
\* and, on the main thread, every cpu device become cpu:1; a string that
\* is empty counts as best
WebDeviceCoerceAll(dev, wrk) ==
    LET d0 == IF dev = {} THEN DevBest ELSE Given(dev)
    IN  IF ~wrk \/ d0 \in {DevBest, <<>>} THEN DevCpu1 ELSE d0
WebDevice(dev, wrk) ==
    LET d0 == IF dev = {} THEN DevBest ELSE Given(dev)
        d1 == IF d0 = DevBest THEN DevCpu1 ELSE d0
        d2 == IF ~wrk /\ d1 # <<>> /\ CPU_DEVICE_REGEX(d1) THEN DevCpu1
              ELSE d1
    IN  IF d2 # <<>> THEN d2 ELSE DevBest

\* the WASM module Koala._init of the web binding loads: the one built with
\* threads when SharedArrayBuffer exists and the device, after best and the
\* main thread's cpu devices have become cpu:1, is neither cpu nor cpu:1
WebModule(dev, wrk, sab) ==
    LET d0 == IF dev = {} THEN DevBest ELSE Given(dev)
        d1 == IF d0 = DevBest THEN DevCpu1 ELSE d0
        d2 == IF ~wrk /\ d1 # <<>> /\ CPU_DEVICE_REGEX(d1) THEN DevCpu1
              ELSE d1
    IN  IF sab /\ d2 # DevCpu /\ d2 # DevCpu1 THEN "pthread" ELSE "simd"

\* Koala._init of the web binding
WebInit ==
    /\ binding = "web" /\ handle = "unset"
    /\ \E arg \in AccessKeys, dev \in Devices, simd \in BOOLEAN,
          wrk \in BOOLEAN, sab \in BOOLEAN :
          IF ~isAccessKeyValid(arg)
          THEN Rejected("InvalidArgumentError", arg, dev, wrk)
          ELSE IF ~simd THEN Rejected("RuntimeError", arg, dev, wrk)
          ELSE NativeInit(arg, dev, wrk, WebDevice(dev, wrk), TRUE,
                          WebModule(dev, wrk, sab))
    /\ UNCHANGED <<otherVars, binding, eng, destroyed, webVars, active, histVars>>

\* Koala._init of the earlier web binding: no device option, and every
\* failure is a plain Error
WebOldInit ==
    /\ binding = "webOld" /\ handle = "unset"
    /\ \E arg \in AccessKeys :
          IF ~isAccessKeyValid(arg) THEN Rejected("Error", arg, {}, FALSE)
          ELSE NativeInit(arg, {}, FALSE, DevBest, FALSE, "simd")
    /\ UNCHANGED <<otherVars, binding, eng, destroyed, webVars, active, histVars>>

\* the one instance of the streaming model is created once
Construct ==
    /\ last.op = "none"
    /\ (AndroidBuild \/ IosInit \/ WebInit \/ WebOldInit)

(* ---------------- synchronous bindings: Android and iOS ---------------- *)
\* process up to the native call: the handle guard, then the length guard
SyncProcess(b, pcm) ==
    /\ binding = b /\ handle # "unset" /\ active = <<>>
    /\ IF handle = "null"
       THEN /\ last' = Outcome("process", <<"InvalidStateError">>, <<>>,
                               FALSE, pcm, destroyed > 0, FALSE, FALSE)
            /\ UNCHANGED active
       ELSE IF Len(pcm) # FrameLength
       THEN /\ last' = Outcome("process", <<"InvalidArgumentError">>, <<>>,
                               FALSE, pcm, destroyed > 0, FALSE, FALSE)
            /\ UNCHANGED active
       ELSE /\ Len(curIn) < MaxFrames
            /\ active' = <<Task("process", pcm, <<>>)>>
            /\ UNCHANGED last
    /\ UNCHANGED <<otherVars, binding, handle, engineVars, webVars, histVars>>

\* the native process call returns: the enhanced frame, or an error of the
\* kind of the status and no frame
SyncProcessReturn(b) ==
    /\ binding = b /\ active # <<>>
    /\ LET t == Head(active) IN
       \E r \in NativeProcess(eng, t.pcm, destroyed > 0) :
          /\ eng' = r.eng
          /\ errorStack' = pv_set_error("process", r.status)
          /\ active' = <<>>
          /\ IF r.status = "SUCCESS"
             THEN /\ last' = Outcome("process", <<>>, <<r.out>>, TRUE, t.pcm,
                                     t.onDeleted, eng' # eng, FALSE)
                  /\ IF destroyed = 0 THEN Consumed(t.pcm, r.out) ELSE Spoiled
             ELSE /\ last' = Report(Outcome("process", <<StatusKind(r.status)>>,
                                     <<>>, TRUE, t.pcm, t.onDeleted,
                                     eng' # eng, TRUE),
                              "process", r.status)
                  /\ Spoiled
    /\ UNCHANGED <<otherVars, binding, handle, destroyed, webVars>>

\* reset: the handle guard, then the native reset
SyncReset(b) ==
    /\ binding = b /\ handle # "unset" /\ active = <<>>
    /\ IF handle = "null"
       THEN /\ last' = Outcome("reset", <<"InvalidStateError">>, <<>>, FALSE,
                               <<>>, destroyed > 0, FALSE, FALSE)
            /\ UNCHANGED <<eng, errorStack, histVars>>
       ELSE \E r \in NativeReset(eng, destroyed > 0) :
               /\ eng' = r.eng
               /\ errorStack' = pv_set_error("reset", r.status)
               /\ last' = Report(Outcome("reset",
                                  IF r.status = "SUCCESS" THEN <<>>
                                  ELSE <<StatusKind(r.status)>>,
                                  <<>>, TRUE, <<>>, destroyed > 0,
                                  eng' # eng, r.status # "SUCCESS"),
                              "reset", r.status)
               /\ IF r.status = "SUCCESS" /\ destroyed = 0
                  THEN NewEpoch ELSE Spoiled
    /\ UNCHANGED <<otherVars, binding, handle, destroyed, webVars, active>>

\* delete: the native destructor runs only on a non-null handle, which is
\* then nulled
SyncDelete(b) ==
    /\ binding = b /\ handle # "unset" /\ active = <<>>
    /\ IF handle # "null"
       THEN /\ destroyed' = Destroy(destroyed)
            /\ handle' = "null"
            /\ last' = Outcome("delete", <<>>, <<>>, TRUE, <<>>,
                               destroyed > 0, FALSE, FALSE)
       ELSE /\ last' = Outcome("delete", <<>>, <<>>, FALSE, <<>>,
                               destroyed > 0, FALSE, FALSE)
            /\ UNCHANGED <<destroyed, handle>>
    /\ UNCHANGED <<otherVars, binding, eng, errorStack, webVars, active, histVars>>

\* getDelaySample of the Android binding: the handle goes to the native
\* delay query as it is, also after delete has set it to 0; what the engine
\* does with a null object is the engine's choice
AndroidGetDelaySample ==
    /\ binding = "android" /\ handle # "unset" /\ active = <<>>
    /\ \E errs \in IF handle = "null"
                   THEN {<<>>, <<"InvalidArgumentError">>} ELSE {<<>>} :
          last' = Outcome("delay", errs, <<>>, TRUE, <<>>, destroyed > 0,
                          FALSE, FALSE)
    /\ UNCHANGED <<otherVars, binding, handle, engineVars, webVars, active,
                   histVars>>

\* a reset that reports success without reaching the native reset
SyncResetNoNative(b) ==
    /\ binding = b /\ handle # "unset" /\ active = <<>>
    /\ IF handle = "null"
       THEN /\ last' = Outcome("reset", <<"InvalidStateError">>, <<>>, FALSE,
                               <<>>, destroyed > 0, FALSE, FALSE)
            /\ UNCHANGED <<eng, errorStack, histVars>>
       ELSE /\ eng' = eng
            /\ errorStack' = errorStack
            /\ last' = Outcome("reset", <<>>, <<>>, FALSE, <<>>,
                               destroyed > 0, FALSE, FALSE)
            /\ NewEpoch
    /\ UNCHANGED <<otherVars, binding, handle, destroyed, webVars, active>>

AndroidResetNoNative == SyncResetNoNative("android")
IosResetNoNative == SyncResetNoNative("ios")

AndroidProcess(pcm) == SyncProcess("android", pcm)
AndroidProcessReturn == SyncProcessReturn("android")
AndroidReset == SyncReset("android")
AndroidDelete == SyncDelete("android")

IosProcess(pcm) == SyncProcess("ios", pcm)
\* a process whose output array is allocated one sample short of frameLength
IosProcessReturnShort ==
    /\ binding = "ios" /\ active # <<>>
    /\ LET t == Head(active) IN
       \E r \in NativeProcess(eng, t.pcm, destroyed > 0) :
          /\ eng' = r.eng
          /\ errorStack' = pv_set_error("process", r.status)
          /\ active' = <<>>
          /\ last' = Report(Outcome("process",
                             IF r.status = "SUCCESS" THEN <<>>
                             ELSE <<StatusKind(r.status)>>,
                             IF r.status = "SUCCESS"
                             THEN <<SubSeq(r.out, 1, FrameLength - 1)>>
                             ELSE <<>>,
                             TRUE, t.pcm, t.onDeleted, eng' # eng,
                             r.status # "SUCCESS"),
                              "process", r.status)
          /\ Spoiled
    /\ UNCHANGED <<otherVars, binding, handle, destroyed, webVars>>
IosProcessReturn == SyncProcessReturn("ios")
IosReset == SyncReset("ios")
IosDelete == SyncDelete("ios")

(* ------------------------ web binding (koala.ts) ----------------------- *)
\* HEAP16.set(pcm, inputBufferAddress / 2): the samples of pcm overwrite the
\* start of the input buffer; what a short pcm leaves is the old content
HeapSet(buf, pcm) ==
    [i \in 1..FrameLength |-> IF i <= Len(pcm) THEN pcm[i] ELSE buf[i]]

\* HEAP16.slice(outputBufferAddress / 2, outputBufferAddress / 2 +
\* frameLength): the frame handed to the process callback
WebSliceShort(buf) == SubSeq(buf, 1, FrameLength - 1)
WebSlice(buf) == SubSeq(buf, 1, FrameLength)

\* the call cannot be given defined behaviour by the engine: the object was
\* destroyed, or the copy of pcm ran past the end of the input buffer
Undefined(t) == destroyed > 0 \/ Len(t.pcm) > FrameLength

\* room on the mutex for one more waiting call, and in the epoch for one
\* more frame, in the bounded model
QueueRoom == Len(waiting) < MaxQueue
WebRoom == QueueRoom /\ Len(curIn) + Len(waiting) + Len(active) < MaxFrames

\* process, synchronous part: the length check reports to the error callback
\* and falls through; the call then queues on the mutex
WebProcess(pcm) ==
    /\ binding = "web" /\ handle # "unset" /\ WebRoom
    /\ waiting' = Append(waiting,
                         Task("process", pcm,
                              IF Len(pcm) # FrameLength
                              THEN <<"InvalidArgumentError">> ELSE <<>>))
    /\ UNCHANGED <<otherVars, binding, handle, engineVars, active, locked, inBuf, outBuf,
                   last, histVars>>

\* reset queues on the same mutex
WebReset ==
    /\ binding = "web" /\ handle # "unset" /\ QueueRoom
    /\ waiting' = Append(waiting, Task("reset", <<>>, <<>>))
    /\ UNCHANGED <<otherVars, binding, handle, engineVars, active, locked, inBuf, outBuf,
                   last, histVars>>

\* a runExclusive that does not wait for the holder of the mutex
WebAcquireNoWait ==
    /\ binding = "web" /\ waiting # <<>>
    /\ LET t == Head(waiting) IN
       /\ waiting' = Tail(waiting)
       /\ locked' = TRUE
       /\ active' = Append(active, t)
       /\ inBuf' = IF t.op = "process" THEN HeapSet(inBuf, t.pcm) ELSE inBuf
    /\ UNCHANGED <<otherVars, binding, handle, engineVars, outBuf, last, histVars>>

\* the mutex is granted to the oldest waiting call, whose body runs up to the
\* awaited native call: the _module guard, then for process the copy of pcm
WebAcquire ==
    /\ binding = "web" /\ ~locked /\ waiting # <<>>
    /\ LET t == Head(waiting) IN
       /\ waiting' = Tail(waiting)
       /\ IF handle = "null"
          THEN /\ last' = Outcome(t.op,
                                  t.errs \o <<IF t.op = "process"
                                              THEN "RuntimeError"
                                              ELSE "InvalidStateError">>,
                                  <<>>, FALSE, t.pcm, t.onDeleted, FALSE,
                                  FALSE)
               /\ UNCHANGED <<active, locked, inBuf>>
          ELSE /\ locked' = TRUE
               /\ active' = Append(active, t)
               /\ inBuf' = IF t.op = "process" THEN HeapSet(inBuf, t.pcm)
                           ELSE inBuf
               /\ UNCHANGED last
    /\ UNCHANGED <<otherVars, binding, handle, engineVars, outBuf, histVars>>

\* the native process call returns: a failure status goes to the error
\* callback, and in every case the output buffer goes to the process callback
WebProcessDone ==
    /\ binding = "web" /\ active # <<>> /\ Head(active).op = "process"
    /\ LET t == Head(active) IN
       \E r \in NativeProcess(eng, inBuf, Undefined(t)) :
          /\ eng' = r.eng
          /\ errorStack' = pv_set_error("process", r.status)
          /\ outBuf' = IF r.wrote THEN r.out ELSE outBuf
          /\ active' = Tail(active)
          /\ locked' = FALSE
          /\ last' = Report(Outcome("process",
                             IF r.status = "SUCCESS" THEN t.errs
                             ELSE t.errs \o <<StatusKind(r.status)>>,
                             <<WebSlice(outBuf')>>, TRUE, t.pcm,
                             t.onDeleted, eng' # eng, r.status # "SUCCESS"),
                              "process", r.status)
          /\ IF r.status = "SUCCESS" /\ ~Undefined(t) /\ t.errs = <<>>
             THEN Consumed(t.pcm, WebSlice(outBuf')) ELSE Spoiled
    /\ UNCHANGED <<otherVars, binding, handle, destroyed, waiting, inBuf>>

\* the native reset call returns: a failure status rejects the promise
WebResetDone ==
    /\ binding = "web" /\ active # <<>> /\ Head(active).op = "reset"
    /\ LET t == Head(active) IN
       \E r \in NativeReset(eng, destroyed > 0) :
          /\ eng' = r.eng
          /\ errorStack' = pv_set_error("reset", r.status)
          /\ active' = Tail(active)
          /\ locked' = FALSE
          /\ last' = Report(Outcome("reset",
                             IF r.status = "SUCCESS" THEN <<>>
                             ELSE <<StatusKind(r.status)>>,
                             <<>>, TRUE, <<>>, t.onDeleted, eng' # eng,
                             r.status # "SUCCESS"),
                              "reset", r.status)
          /\ IF r.status = "SUCCESS" /\ destroyed = 0
             THEN NewEpoch ELSE Spoiled
    /\ UNCHANGED <<otherVars, binding, handle, destroyed, waiting, inBuf, outBuf>>

\* release: guarded by _module, which nothing ever clears; the native
\* destructor runs and the buffers are freed, outside the mutex
WebRelease ==
    /\ binding = "web" /\ handle # "unset"
    /\ IF handle = "null"
       THEN /\ last' = Outcome("delete", <<>>, <<>>, FALSE, <<>>,
                               destroyed > 0, FALSE, FALSE)
            /\ UNCHANGED destroyed
       ELSE /\ destroyed' = Destroy(destroyed)
            /\ last' = Outcome("delete", <<>>, <<>>, TRUE, <<>>,
                               destroyed > 0, FALSE, FALSE)
    /\ UNCHANGED <<otherVars, binding, handle, eng, errorStack, webVars, active,
                   histVars>>

(* ------------------ web binding, earlier version (koala.ts) ------------ *)
\* process, synchronous part: as above, with plain Error values
WebOldProcess(pcm) ==
    /\ binding = "webOld" /\ handle # "unset" /\ WebRoom
    /\ waiting' = Append(waiting,
                         Task("process", pcm,
                              IF Len(pcm) # FrameLength
                              THEN <<"Error">> ELSE <<>>))
    /\ UNCHANGED <<otherVars, binding, handle, engineVars, active, locked, inBuf, outBuf,
                   last, histVars>>

WebOldReset ==
    /\ binding = "webOld" /\ handle # "unset" /\ QueueRoom
    /\ waiting' = Append(waiting, Task("reset", <<>>, <<>>))
    /\ UNCHANGED <<otherVars, binding, handle, engineVars, active, locked, inBuf, outBuf,
                   last, histVars>>

\* the mutex is granted to the oldest waiting call: the _wasmMemory guard,
\* then for process the copy of pcm, up to the awaited native call
WebOldAcquire ==
    /\ binding = "webOld" /\ ~locked /\ waiting # <<>>
    /\ LET t == Head(waiting) IN
       /\ waiting' = Tail(waiting)
       /\ IF handle = "null"
          THEN /\ last' = Outcome(t.op, t.errs \o <<"Error">>, <<>>, FALSE,
                                  t.pcm, t.onDeleted, FALSE, FALSE)
               /\ UNCHANGED <<active, locked, inBuf>>
          ELSE /\ locked' = TRUE
               /\ active' = Append(active, t)
               /\ inBuf' = IF t.op = "process" THEN HeapSet(inBuf, t.pcm)
                           ELSE inBuf
               /\ UNCHANGED last
    /\ UNCHANGED <<otherVars, binding, handle, engineVars, outBuf, histVars>>

\* the native process call returns: a failure status throws, which reaches
\* the error callback and skips the process callback
WebOldProcessDone ==
    /\ binding = "webOld" /\ active # <<>> /\ Head(active).op = "process"
    /\ LET t == Head(active) IN
       \E r \in NativeProcess(eng, inBuf, Undefined(t)) :
          /\ eng' = r.eng
          /\ errorStack' = pv_set_error("process", r.status)
          /\ outBuf' = IF r.wrote THEN r.out ELSE outBuf
          /\ active' = Tail(active)
          /\ locked' = FALSE
          /\ last' = Report(Outcome("process",
                             IF r.status = "SUCCESS" THEN t.errs
                             ELSE t.errs \o <<"Error">>,
                             IF r.status = "SUCCESS"
                             THEN <<WebSlice(outBuf')>> ELSE <<>>,
                             TRUE, t.pcm, t.onDeleted, eng' # eng,
                             r.status # "SUCCESS"),
                              "process", r.status)
          /\ IF r.status = "SUCCESS" /\ ~Undefined(t) /\ t.errs = <<>>
             THEN Consumed(t.pcm, WebSlice(outBuf')) ELSE Spoiled
    /\ UNCHANGED <<otherVars, binding, handle, destroyed, waiting, inBuf>>

WebOldResetDone ==
    /\ binding = "webOld" /\ active # <<>> /\ Head(active).op = "reset"
    /\ LET t == Head(active) IN
       \E r \in NativeReset(eng, destroyed > 0) :
          /\ eng' = r.eng
          /\ errorStack' = pv_set_error("reset", r.status)
          /\ active' = Tail(active)
          /\ locked' = FALSE
          /\ last' = Report(Outcome("reset",
                             IF r.status = "SUCCESS" THEN <<>>
                             ELSE <<"Error">>,
                             <<>>, TRUE, <<>>, t.onDeleted, eng' # eng,
                             r.status # "SUCCESS"),
                              "reset", r.status)
          /\ IF r.status = "SUCCESS" /\ destroyed = 0
             THEN NewEpoch ELSE Spoiled
    /\ UNCHANGED <<otherVars, binding, handle, destroyed, waiting, inBuf, outBuf>>

\* release, up to its first await: the native destructor runs, unguarded
WebOldRelease ==
    /\ binding = "webOld" /\ handle \in {"live", "null"}
    /\ destroyed' = Destroy(destroyed)
    /\ handle' = IF handle = "live" THEN "releasing" ELSE "null"
    /\ last' = Outcome("delete", <<>>, <<>>, TRUE, <<>>, destroyed > 0,
                       FALSE, FALSE)
    /\ UNCHANGED <<otherVars, binding, eng, errorStack, webVars, active, histVars>>

\* release resumes after its awaits: _wasmMemory becomes undefined
WebOldReleaseDone ==
    /\ binding = "webOld" /\ handle = "releasing"
    /\ handle' = "null"
    /\ UNCHANGED <<otherVars, binding, engineVars, webVars, active, last, histVars>>

(* ------------- operations on one of several instances ------------------ *)
\* The operations below act on instance i while the other instance exists
\* next to it. Calls are taken whole: their interleaving within one instance
\* is the subject of the single-instance actions above.

\* the delaySample getter of each binding
GetDelaySample(i) ==
    CASE binding = "android" -> pv_koala_delay_sample(insts[i].model)
      [] binding = "ios"     -> insts[i].field
      [] binding = "web"     -> insts[i].field
      [] OTHER               -> staticDelay

\* a successful create: the engine object is made from the model; iOS and
\* the web binding store the delay in a field of the instance, the earlier
\* web binding in a static field of the class
InstCreate(i, m) ==
    /\ insts[i].st = "none"
    /\ insts' = [insts EXCEPT ![i] =
                    [st |-> "live", model |-> m,
                     eng |-> EngineOf(pv_koala_delay_sample(m)),
                     field |-> IF binding \in {"ios", "web"}
                               THEN pv_koala_delay_sample(m) ELSE Unassigned]]
    /\ staticDelay' = IF binding = "webOld" THEN pv_koala_delay_sample(m)
                      ELSE staticDelay
    /\ UNCHANGED <<instRest, answer>>

InstProcess(i, pcm) ==
    /\ insts[i].st = "live"
    /\ insts' = [insts EXCEPT ![i].eng = pv_koala_process(@, pcm).eng]
    /\ UNCHANGED <<instRest, staticDelay, answer>>

\* a reset that also clears the stored delay
InstResetClearing(i) ==
    /\ insts[i].st = "live"
    /\ insts' = [insts EXCEPT ![i].eng = pv_koala_reset(@), ![i].field = 0]
    /\ staticDelay' = IF binding = "webOld" THEN 0 ELSE staticDelay
    /\ UNCHANGED <<instRest, answer>>

InstReset(i) ==
    /\ insts[i].st = "live"
    /\ insts' = [insts EXCEPT ![i].eng = pv_koala_reset(@)]
    /\ UNCHANGED <<instRest, staticDelay, answer>>

InstDelete(i) ==
    /\ insts[i].st = "live"
    /\ insts' = [insts EXCEPT ![i].st = "deleted"]
    /\ UNCHANGED <<instRest, staticDelay, answer>>

InstQuery(i) ==
    /\ insts[i].st = "live"
    /\ answer' = [inst |-> i, value |-> GetDelaySample(i)]
    /\ UNCHANGED <<instRest, insts, staticDelay>>

(* ------------------------- the file demo's loop ------------------------ *)
\* start_sample < total_samples + delay_samples: the int32_t is converted to
\* size_t, which makes a negative start_sample larger than any sum
LoopCondition ==
    /\ demo.start_sample >= 0
    /\ demo.start_sample < demo.in.total_samples + demo.in.delay_samples

\* samples drwav_read_pcm_frames_s16 puts into the zeroed pcm buffer
FramesRead == Min(demo.in.frame_length, demo.in.total_samples - demo.read)

\* the rest of one pass of the loop once end_sample is known: the frame is
\* read and processed, and the part of enhanced_pcm that lies between
\* delay_samples and total_samples + delay_samples is written
LoopBody(end_sample) ==
    LET start == demo.start_sample
        delay == demo.in.delay_samples
        total == demo.in.total_samples
        length == IF end_sample > total + delay
                  THEN total + delay - start ELSE demo.in.frame_length
        skip == IF start < delay THEN delay - start ELSE 0
        fed == [demo EXCEPT !.start_sample = end_sample,
                            !.read = @ + FramesRead,
                            !.zeros = @ + (demo.in.frame_length - FramesRead)]
    IN  IF end_sample > delay
        THEN [fed EXCEPT !.written =
                  Append(@, [from |-> start + skip, n |-> length - skip])]
        ELSE fed

\* start_sample + frame_length in int32_t arithmetic, when the sum is out
\* of range and the build wraps around
Wrapped(a, b) == ((a - Int32Max) + (b - Int32Max)) - 2

\* one pass of the loop. end_sample = start_sample + frame_length is a
\* signed addition: out of range it is undefined, and the build either
\* wraps around or traps
DemoFrame ==
    /\ demo.pc = "loop"
    /\ LoopCondition
    /\ IF demo.start_sample <= Int32Max - demo.in.frame_length
       THEN demo' = LoopBody(demo.start_sample + demo.in.frame_length)
       ELSE \/ demo' = LoopBody(Wrapped(demo.start_sample, demo.in.frame_length))
            \/ demo' = [demo EXCEPT !.pc = "aborted"]
    /\ UNCHANGED demoRest

\* pv_koala_process reports a failure: the demo prints the message stack
\* and exits
DemoProcessFail ==
    /\ demo.pc = "loop"
    /\ LoopCondition
    /\ demo' = [demo EXCEPT !.pc = "failed"]
    /\ UNCHANGED demoRest

\* the loop condition is false: the files are closed and the demo returns
DemoExit ==
    /\ demo.pc = "loop"
    /\ ~LoopCondition
    /\ demo' = [demo EXCEPT !.pc = "done"]
    /\ UNCHANGED demoRest

(* ------------------------- the recording demos ------------------------- *)
\* The demo apps record from the microphone into a reference file and, through
\* the engine, into an enhanced file. One instance serves all recordings.

\* iOS: samples of the frame written by audioCallback once samplesWritten
\* (this frame included) exceeds the delay
IosFrameWritten(total, d, f) ==
    IF total > d THEN (IF total - d < f THEN total - d ELSE f) ELSE 0

\* iOS: samples cleanupRecording writes while flushing the delayed tail
RECURSIVE IosPadWritten(_, _)
IosPadWritten(padSamplesToWrite, f) ==
    IF padSamplesToWrite > 0
    THEN Min(padSamplesToWrite, f) + IosPadWritten(padSamplesToWrite - f, f)
    ELSE 0

\* ViewModel.recordingOn: the files are opened anew, the engine is reset and
\* the microphone started; when reset or the microphone fails nothing is
\* recorded
IosRecordingOn ==
    /\ rec.app = "ios"
    /\ rec.phase # "off"
    /\ ~rec.recording
    /\ rec.count < MaxRecordings
    /\ \/ rec' = [rec EXCEPT !.total = 0, !.enh = 0, !.frames = 0,
                             !.failed = FALSE, !.dirty = FALSE,
                             !.recording = TRUE, !.count = @ + 1,
                             !.phase = "recording"]
       \/ rec' = [rec EXCEPT !.total = 0, !.enh = 0, !.frames = 0,
                             !.failed = TRUE, !.phase = "ready"]
    /\ UNCHANGED recRest

\* ViewModel.audioCallback: the frame goes to the reference file and through
\* the engine; the enhanced frame is written from the delay on
IosAudioCallback ==
    /\ rec.app = "ios"
    /\ rec.recording
    /\ rec.frames < MaxRecorded
    /\ LET total == rec.total + rec.frame_length
       IN  \/ rec' = [rec EXCEPT
                        !.total = total, !.frames = @ + 1,
                        !.enh = @ + IosFrameWritten(total, rec.delay,
                                                    rec.frame_length),
                        !.unreset = @ \/ (rec.frames = 0 /\ rec.dirty),
                        !.dirty = TRUE]
           \/ rec' = [rec EXCEPT !.total = total, !.frames = @ + 1,
                                 !.failed = TRUE]
    /\ UNCHANGED recRest

\* ViewModel.recordingOff with cleanupRecording: pad frames are processed
\* until delaySample more samples have been written
IosRecordingOff ==
    /\ rec.app = "ios"
    /\ rec.recording
    /\ \/ rec' = [rec EXCEPT
                    !.enh = @ + IosPadWritten(rec.delay, rec.frame_length),
                    !.dirty = @ \/ rec.delay > 0,
                    !.recording = FALSE, !.phase = "stopped"]
       \/ /\ rec.delay > 0
          /\ rec' = [rec EXCEPT !.failed = TRUE, !.recording = FALSE,
                                !.phase = "stopped"]
    /\ UNCHANGED recRest

\* the reader's finally block: stopped is set and the thread ends
ReaderEnds(r) ==
    [r EXCEPT !.stopped = TRUE, !.reader = "none", !.readers = @ - 1]

\* MicrophoneReader.start: unless started, the files are opened and a new
\* reader thread is launched
AndroidStart ==
    /\ rec.app = "android"
    /\ rec.phase # "off"
    /\ rec.ui = "idle"
    /\ ~rec.started
    /\ rec.count < MaxRecordings
    /\ rec' = [rec EXCEPT !.started = TRUE, !.reader = "setup",
                          !.readers = @ + 1, !.count = @ + 1,
                          !.frames = 0, !.failed = FALSE,
                          !.phase = "recording"]
    /\ UNCHANGED recRest

\* read(), up to the loop: the recorder is created and started, the counters
\* are cleared; an exception of the recorder leads to the finally block
AndroidReaderSetup ==
    /\ rec.app = "android"
    /\ rec.reader = "setup"
    /\ \/ rec' = [rec EXCEPT !.reader = "loop", !.total = 0, !.enh = 0]
       \/ rec' = ReaderEnds([rec EXCEPT !.failed = TRUE])
    /\ UNCHANGED recRest

\* one pass of the reading loop with a whole frame read: it is processed,
\* written to the reference file and, from the delay on, to the enhanced file
AndroidReaderFrame ==
    /\ rec.app = "android"
    /\ rec.reader = "loop"
    /\ ~rec.stop
    /\ rec.frames < MaxRecorded
    /\ LET total == rec.total + rec.frame_length
       IN  \/ rec' = [rec EXCEPT
                        !.total = total, !.frames = @ + 1,
                        !.enh = IF total >= rec.delay
                                THEN @ + rec.frame_length ELSE @,
                        !.unreset = @ \/ (rec.frames = 0 /\ rec.dirty),
                        !.dirty = TRUE]
           \/ rec' = ReaderEnds([rec EXCEPT !.failed = TRUE])
    /\ UNCHANGED recRest

\* the loop sees the stop flag: the recorder is stopped
AndroidReaderStops ==
    /\ rec.app = "android"
    /\ rec.reader = "loop"
    /\ rec.stop
    /\ rec' = [rec EXCEPT !.reader = "pad"]
    /\ UNCHANGED recRest

\* empty frames are processed until the enhanced file has caught up
AndroidReaderPad ==
    /\ rec.app = "android"
    /\ rec.reader = "pad"
    /\ rec.enh < rec.total
    /\ \/ rec' = [rec EXCEPT !.enh = @ + rec.frame_length, !.dirty = TRUE]
       \/ rec' = ReaderEnds([rec EXCEPT !.failed = TRUE])
    /\ UNCHANGED recRest

AndroidReaderDone ==
    /\ rec.app = "android"
    /\ rec.reader = "pad"
    /\ rec.enh >= rec.total
    /\ rec' = ReaderEnds(rec)
    /\ UNCHANGED recRest

\* MicrophoneReader.stop, first part: the stop flag is raised
AndroidStop ==
    /\ rec.app = "android"
    /\ rec.ui = "idle"
    /\ rec.started
    /\ rec' = [rec EXCEPT !.stop = TRUE, !.ui = "stopping"]
    /\ UNCHANGED recRest

\* MicrophoneReader.stop, interrupted in its wait for stopped: the
\* InterruptedException leaves stop() with the flags as they are
AndroidStopInterrupted ==
    /\ rec.app = "android"
    /\ rec.ui = "stopping"
    /\ ~rec.stopped
    /\ rec' = [rec EXCEPT !.ui = "idle", !.phase = "threw"]
    /\ UNCHANGED recRest

\* MicrophoneReader.stop, after the wait for stopped: the headers are
\* written, the files closed and the three flags cleared; an IOException of
\* the files leaves stop() before the flags are cleared
AndroidStopReturns ==
    /\ rec.app = "android"
    /\ rec.ui = "stopping"
    /\ rec.stopped
    /\ \/ rec' = [rec EXCEPT !.started = FALSE, !.stop = FALSE,
                             !.stopped = FALSE, !.ui = "idle",
                             !.phase = "stopped"]
       \/ rec' = [rec EXCEPT !.ui = "idle", !.phase = "threw"]
    /\ UNCHANGED recRest

(* -------------- web binding: calls in issue order (koala.ts) ----------- *)
\* The actions below follow process() and reset() of the web binding on a
\* live instance with frames of the right length, and keep the order in
\* which the calls were issued next to the order in which they run.
OrdCall(op, pcm) == [op |-> op, pcm |-> pcm]

\* a call is issued: process() and reset() hand their body to
\* _processMutex.runExclusive and the call waits for the mutex
OrdIssue(c) ==
    /\ ord.phase = "on" /\ Len(ord.issued) < MaxCalls
    /\ ord' = [ord EXCEPT !.issued = Append(@, c),
                          !.waiting = Append(@, Len(ord.issued) + 1),
                          !.depth = IF Len(ord.waiting) + 1 > @
                                    THEN Len(ord.waiting) + 1 ELSE @]
    /\ UNCHANGED ordRest

OrdProcess(pcm) == OrdIssue(OrdCall("process", pcm))

OrdReset == OrdIssue(OrdCall("reset", <<>>))

\* the body of call id starts: for process, pcm is copied to the input
\* buffer before the native call is awaited
OrdBegin(id) ==
    ord' = [ord EXCEPT !.waiting = SelectSeq(@, LAMBDA w : w # id),
                       !.active = <<id>>,
                       !.inBuf = IF ord.issued[id].op = "process"
                                 THEN HeapSet(@, ord.issued[id].pcm) ELSE @]

\* a mutex that grants itself to the call that began to wait last
OrdAcquireNewest ==
    /\ ord.phase = "on" /\ ord.active = <<>> /\ ord.waiting # <<>>
    /\ OrdBegin(ord.waiting[Len(ord.waiting)])
    /\ UNCHANGED ordRest

\* the mutex is free and is granted to the call that has waited longest
OrdAcquire ==
    /\ ord.phase = "on" /\ ord.active = <<>> /\ ord.waiting # <<>>
    /\ OrdBegin(Head(ord.waiting))
    /\ UNCHANGED ordRest

\* the native process call returns: a failure goes to the error callback,
\* and in every case the output buffer goes to processCallback
OrdProcessDone ==
    /\ ord.phase = "on" /\ ord.active # <<>>
    /\ ord.issued[Head(ord.active)].op = "process"
    /\ \E r \in NativeProcess(ord.eng, ord.inBuf, FALSE) :
          LET out == IF r.wrote THEN r.out ELSE ord.outBuf
          IN  ord' = [ord EXCEPT !.eng = r.eng,
                                 !.outBuf = out,
                                 !.active = <<>>,
                                 !.applied = Append(@, Head(ord.active)),
                                 !.delivered =
                                     Append(@, [id |-> Head(ord.active),
                                                frame |-> WebSlice(out)]),
                                 !.failed = @ \/ r.status # "SUCCESS"]
    /\ UNCHANGED ordRest

\* the native reset call returns
OrdResetDone ==
    /\ ord.phase = "on" /\ ord.active # <<>>
    /\ ord.issued[Head(ord.active)].op = "reset"
    /\ \E r \in NativeReset(ord.eng, FALSE) :
          ord' = [ord EXCEPT !.eng = r.eng,
                             !.active = <<>>,
                             !.applied = Append(@, Head(ord.active)),
                             !.failed = @ \/ r.status # "SUCCESS"]
    /\ UNCHANGED ordRest

\* what the calls deliver when each one is run to its end before the next
\* is issued
RECURSIVE SerialRun(_, _)
SerialRun(e, calls) ==
    IF calls = <<>> THEN <<>>
    ELSE IF Head(calls).op = "reset"
         THEN SerialRun(pv_koala_reset(e), Tail(calls))
         ELSE <<pv_koala_process(e, Head(calls).pcm).out>>
              \o SerialRun(pv_koala_process(e, Head(calls).pcm).eng,
                           Tail(calls))

(* ------------- the web worker handler (koala_worker_handler.ts) -------- *)
\* a message the handler posts; the earlier handler's messages carry a
\* text and no status
Msg(c, st) == [command |-> c, status |-> IF hnd.version = "web" THEN st
                                         ELSE "none"]

\* the handler's step for request c, having posted the messages ms
HndStep(c, ms) == [hnd EXCEPT !.cmd = c, !.posted = ms]

\* onmessage runs for one more request
HndReceives ==
    /\ hnd.cmd # "off" /\ ~hnd.closed /\ hnd.seen < MaxMessages

\* an 'init' that goes on to Koala._init whatever koala holds
HndInitUnguarded ==
    /\ HndReceives
    /\ hnd' = [HndStep("init", <<>>)
                 EXCEPT !.seen = @ + 1, !.initing = @ + 1]
    /\ UNCHANGED hndRest

\* 'init': rejected while koala is set; otherwise the handler is suspended
\* at Koala._init
HndInit ==
    /\ HndReceives
    /\ hnd' = IF hnd.koala # Null
              THEN [HndStep("init", <<Msg("error", "INVALID_STATE")>>)
                       EXCEPT !.seen = @ + 1]
              ELSE [HndStep("init", <<>>)
                       EXCEPT !.seen = @ + 1, !.initing = @ + 1]
    /\ UNCHANGED hndRest

\* Koala._init returns an instance, which is stored in koala, or throws
HndInitDone ==
    /\ hnd.cmd # "off" /\ ~hnd.closed /\ hnd.initing > 0
    /\ \/ hnd' = [HndStep("init-done", <<Msg("ok", "none")>>)
                     EXCEPT !.initing = @ - 1,
                            !.created = @ + 1,
                            !.koala = hnd.created + 1,
                            !.live = @ \cup {hnd.created + 1}]
       \/ \E st \in FailStatuses \cup {"RUNTIME_ERROR"} :
             hnd' = [HndStep("init-done", <<Msg("error", st)>>)
                        EXCEPT !.initing = @ - 1]
    /\ UNCHANGED hndRest

\* 'process': rejected while koala is null; otherwise koala.process runs
\* and its callbacks post the frame or the error
HndProcess ==
    /\ HndReceives
    /\ \E ms \in IF hnd.koala = Null
                 THEN {<<Msg("error", "INVALID_STATE")>>}
                 ELSE IF hnd.version = "web"
                 THEN {<<Msg("ok-process", "none")>>}
                      \cup {<<Msg("error", st), Msg("ok-process", "none")>> :
                                st \in FailStatuses}
                 ELSE {<<Msg("ok", "none")>>, <<Msg("error", "none")>>} :
          hnd' = [HndStep("process", ms) EXCEPT !.seen = @ + 1]
    /\ UNCHANGED hndRest

\* 'reset': rejected while koala is null; otherwise koala.reset runs. The
\* current handler answers 'ok-reset' or the error, the earlier one nothing
HndReset ==
    /\ HndReceives
    /\ \E ms \in IF hnd.koala = Null
                 THEN {<<Msg("error", "INVALID_STATE")>>}
                 ELSE IF hnd.version = "web"
                 THEN {<<Msg("ok-reset", "none")>>}
                      \cup {<<Msg("error", st)>> : st \in FailStatuses}
                 ELSE {<<>>} :
          hnd' = [HndStep("reset", ms) EXCEPT !.seen = @ + 1]
    /\ UNCHANGED hndRest

\* 'release': with an instance the handler calls koala.release() and is
\* suspended there; without one it answers 'ok'
HndRelease ==
    /\ HndReceives
    /\ hnd' = IF hnd.koala # Null
              THEN [HndStep("release", <<>>)
                       EXCEPT !.seen = @ + 1,
                              !.releasing = @ \cup {hnd.koala}]
              ELSE [HndStep("release", <<Msg("ok", "none")>>)
                       EXCEPT !.seen = @ + 1]
    /\ UNCHANGED hndRest

\* koala.release() has returned: koala = null, close(), and the answer
HndReleaseDone ==
    /\ hnd.cmd # "off" /\ ~hnd.closed
    /\ \E k \in hnd.releasing :
          hnd' = [HndStep("release-done", <<Msg("ok", "none")>>)
                     EXCEPT !.releasing = @ \ {k},
                            !.live = @ \ {k},
                            !.koala = Null,
                            !.closed = TRUE]
    /\ UNCHANGED hndRest

\* any other command
HndOther ==
    /\ HndReceives
    /\ hnd' = [HndStep("other", <<Msg("failed", "RUNTIME_ERROR")>>)
                 EXCEPT !.seen = @ + 1]
    /\ UNCHANGED hndRest

\* a request posted to a worker that has called close(): the worker runs
\* no further task, so the request is never handled and never answered
HndClosed(c) ==
    /\ hnd.cmd # "off" /\ hnd.closed /\ hnd.seen < MaxMessages
    /\ hnd' = [HndStep(c, <<>>) EXCEPT !.seen = @ + 1]
    /\ UNCHANGED hndRest

(* ---------------------------- specification ---------------------------- *)
Next ==
    \/ Construct
    \/ \E pcm \in AnyFrames : AndroidProcess(pcm)
    \/ AndroidProcessReturn
    \/ AndroidReset
    \/ AndroidDelete
    \/ AndroidGetDelaySample
    \/ \E pcm \in AnyFrames : IosProcess(pcm)
    \/ IosProcessReturn
    \/ IosReset
    \/ IosDelete
    \/ \E pcm \in AnyFrames : WebProcess(pcm)
    \/ WebReset
    \/ WebAcquire
    \/ WebProcessDone
    \/ WebResetDone
    \/ WebRelease
    \/ \E pcm \in AnyFrames : WebOldProcess(pcm)
    \/ WebOldReset
    \/ WebOldAcquire
    \/ WebOldProcessDone
    \/ WebOldResetDone
    \/ WebOldRelease
    \/ WebOldReleaseDone

Spec == Init /\ [][Next]_vars

\* creation alone: create is attempted again after each failure, until an
\* instance exists
NextCreate == AndroidBuild \/ IosInit \/ WebInit \/ WebOldInit

SpecCreate == Init /\ [][NextCreate]_vars

\* two instances of one binding, created from either model and used in any
\* order
NextInst ==
    \/ \E i \in Insts, m \in Models : InstCreate(i, m)
    \/ \E i \in Insts, pcm \in ValidFrames : InstProcess(i, pcm)
    \/ \E i \in Insts : InstReset(i)
    \/ \E i \in Insts : InstDelete(i)
    \/ \E i \in Insts : InstQuery(i)

SpecInst == Init /\ [][NextInst]_vars

\* the file demo run on one input file; it calls the engine directly, so
\* the state of the bindings stays as it is
\* the single-instance stream is not in use: nothing has been created
StreamIdle ==
    /\ binding = "android"
    /\ handle = "unset"
    /\ eng = EngineInit
    /\ destroyed = 0
    /\ errorStack = <<>>
    /\ waiting = <<>>
    /\ active = <<>>
    /\ locked = FALSE
    /\ inBuf = PadFrame
    /\ outBuf = inBuf
    /\ last = NoCall
    /\ curIn = <<>>
    /\ curOut = <<>>
    /\ prevIn = <<>>
    /\ prevOut = <<>>
    /\ clean = TRUE
    /\ prevClean = FALSE
    /\ wasReset = FALSE

InitDemo ==
    /\ StreamIdle
    /\ InstIdle
    /\ rec = RecIdle
    /\ ord = OrdIdle
    /\ hnd = HndIdle
    /\ \E in \in DemoInputs : demo = DemoStart(in)

NextDemo == DemoFrame \/ DemoProcessFail \/ DemoExit

\* the loop keeps running while it can
SpecDemo == InitDemo /\ [][NextDemo]_vars /\ WF_vars(NextDemo)

\* a recording demo with a created instance, made to record and stop
InitRec ==
    /\ StreamIdle
    /\ InstIdle
    /\ demo = DemoIdle
    /\ ord = OrdIdle
    /\ hnd = HndIdle
    /\ \E app \in RecApps, f \in 1..MaxFrameLength, d \in 0..MaxDelaySamples :
          rec = RecStart(app, f, d)

NextRec ==
    \/ IosRecordingOn
    \/ IosAudioCallback
    \/ IosRecordingOff
    \/ AndroidStart
    \/ AndroidReaderSetup
    \/ AndroidReaderFrame
    \/ AndroidReaderStops
    \/ AndroidReaderPad
    \/ AndroidReaderDone
    \/ AndroidStop
    \/ AndroidStopInterrupted
    \/ AndroidStopReturns

\* the reader thread and the UI thread keep running
SpecRec == InitRec /\ [][NextRec]_vars /\ WF_vars(NextRec)

\* a created web instance, and calls issued on it without waiting
InitOrder ==
    /\ StreamIdle
    /\ InstIdle
    /\ demo = DemoIdle
    /\ rec = RecIdle
    /\ hnd = HndIdle
    /\ ord = OrdStart

NextOrder ==
    \/ \E pcm \in ValidFrames : OrdProcess(pcm)
    \/ OrdReset
    \/ OrdAcquire
    \/ OrdProcessDone
    \/ OrdResetDone

SpecOrder == InitOrder /\ [][NextOrder]_vars

\* a worker running either version of the handler, and the requests a
\* client posts to it
InitWorker ==
    /\ StreamIdle
    /\ InstIdle
    /\ demo = DemoIdle
    /\ rec = RecIdle
    /\ ord = OrdIdle
    /\ \E v \in HandlerVersions : hnd = HndStart(v)

NextWorker ==
    \/ HndInit
    \/ HndInitDone
    \/ HndProcess
    \/ HndReset
    \/ HndRelease
    \/ HndReleaseDone
    \/ HndOther
    \/ \E c \in Commands : HndClosed(c)

SpecWorker == InitWorker /\ [][NextWorker]_vars

(* --------------------------- lifecycle view ---------------------------- *)
\* the lifecycle state of the instance as its operations show it
Phase ==
    IF handle = "unset" THEN "UNINITIALIZED"
    ELSE IF active # <<>> THEN "PROCESSING"
    ELSE IF destroyed > 0 THEN "DELETED"
    ELSE "READY"

LegalTransitions ==
    {<<"UNINITIALIZED", "UNINITIALIZED">>, <<"UNINITIALIZED", "READY">>,
     <<"READY", "READY">>, <<"READY", "PROCESSING">>,
     <<"PROCESSING", "PROCESSING">>, <<"PROCESSING", "READY">>,
     <<"READY", "DELETED">>, <<"PROCESSING", "DELETED">>,
     <<"DELETED", "DELETED">>}


(* ------------------------------- claims -------------------------------- *)
\* C1: processing a stream S, calling reset, then processing the identical S
\* again yields frame for frame the output of the first pass: as far as the
\* frames consumed since the reset repeat those of the epoch before it, the
\* frames delivered repeat those delivered then.
C1_ResetIdempotence ==
    (wasReset /\ clean /\ prevClean) =>
        /\ Len(curOut) = Len(curIn)
        /\ \A k \in 1..Min(Len(curIn), Len(prevIn)) :
              SubSeq(curIn, 1, k) = SubSeq(prevIn, 1, k)
                  => SubSeq(curOut, 1, k) = SubSeq(prevOut, 1, k)

\* a whole stream has been processed, reset, and processed again
C1_Witness ==
    /\ wasReset /\ clean /\ prevClean
    /\ Len(prevIn) = MaxFrames
    /\ curIn = prevIn
    /\ curOut = prevOut

\* C2: after reset, whatever was processed before it, the instance behaves
\* as a freshly constructed one: the frames delivered since the reset are
\* those a new engine emits for the frames consumed since the reset, so no
\* sample buffered before the reset is emitted.
C2_ResetAsFresh ==
    (wasReset /\ clean) => curOut = FreshRun(EngineInit, curIn)

\* frames were processed, then a reset, then frames again
C2_Witness ==
    /\ wasReset /\ clean /\ prevClean
    /\ Len(prevIn) >= 1
    /\ Len(curIn) = MaxFrames
    /\ curOut = FreshRun(EngineInit, curIn)

\* C3: once at least delay_samples samples were consumed since construction
\* or the last reset, with no frame dropped, the number of non-pad samples
\* emitted is the number of samples consumed minus delay_samples.
C3_DelayConservation ==
    (clean /\ Len(curIn) * FrameLength >= DelaySample) =>
        CountNonPad(Flatten(curOut)) = Len(curIn) * FrameLength - DelaySample

\* a stream longer than the delay went through the web binding
C3_Witness ==
    /\ binding = "web" /\ clean
    /\ Len(curIn) = MaxFrames
    /\ Len(curIn) * FrameLength >= DelaySample
    /\ CountNonPad(Flatten(curOut)) = Len(curIn) * FrameLength - DelaySample

\* C4: the lifecycle is UNINITIALIZED -> READY -> (PROCESSING <-> READY) ->
\* DELETED and nothing else; DELETED is terminal: no operation takes a
\* deleted instance back to READY or PROCESSING.
C4_Lifecycle ==
    [][\E tr \in LegalTransitions : tr[1] = Phase /\ tr[2] = Phase']_vars

\* C5: in the web binding, where callers are concurrent, at most one process
\* or reset call executes in the engine at a time, and the instance's mutex
\* is held for as long as one does.
C5_MutualExclusion ==
    binding \in WebBindings =>
        /\ Len(active) <= 1
        /\ active # <<>> => locked

\* a call executes in the engine while another waits for the mutex
C5_Witness ==
    /\ binding = "web"
    /\ Len(active) = 1
    /\ waiting # <<>>
    /\ locked

\* C6: process invoked on a deleted instance fails with InvalidStateError
\* and never reaches the native engine.
C6_ProcessOnDeleted ==
    (last.op = "process" /\ last.onDeleted) =>
        (last.errs = <<"InvalidStateError">> /\ ~last.native)

\* C7: reset invoked on a deleted instance fails with InvalidStateError, and
\* reset fails in no other circumstance.
C7_ResetOnDeleted ==
    last.op = "reset" =>
        /\ last.onDeleted => (last.errs = <<"InvalidStateError">>
                              /\ ~last.native)
        /\ ~last.onDeleted => last.errs = <<>>

\* C8: process called on a live instance with a frame whose length is not
\* frame_length is rejected with InvalidArgumentError before the engine is
\* invoked: no native call, no change of the engine state, no frame.
C8_BadLengthRejected ==
    (last.op = "process" /\ last.pcmLen # FrameLength /\ ~last.onDeleted) =>
        /\ last.errs = <<"InvalidArgumentError">>
        /\ ~last.native
        /\ ~last.changed
        /\ last.frames = 0

\* C9: process fails atomically: a process call (of a frame of the right
\* length, on an instance that was not deleted) that reports a failure
\* delivers no frame, whole or partial, and leaves the engine state as it
\* was.
C9_ProcessAtomic ==
    (last.op = "process" /\ last.errs # <<>> /\ last.pcmLen = FrameLength
     /\ ~last.onDeleted) =>
        (last.frames = 0 /\ ~last.changed)

\* C10: the native engine object is destroyed at most once, and a delete or
\* release after the first does not reach the native destructor.
C10_DeleteOnce ==
    /\ destroyed <= 1
    /\ (last.op = "delete" /\ last.onDeleted) => ~last.native

\* C11: every successful process call hands the caller exactly one frame of
\* exactly FrameLength samples, whatever the samples of the input frame.
C11_LengthInvariant ==
    (last.op = "process" /\ last.errs = <<>>) =>
        (last.frames = 1 /\ last.outLen = FrameLength)

\* successful process calls on frames of different content
C11_Witness ==
    /\ last.op = "process" /\ last.errs = <<>> /\ last.outLen = FrameLength
    /\ clean /\ Len(curIn) = 2 /\ curIn[1] # curIn[2]
    /\ binding = "ios"

C13_SameFailureSameStack ==
    [][(last.engFail /\ last'.engFail /\ last'.cause = last.cause)
          => last'.stack = last.stack]_vars

\* a create failed in the engine for the second time in a row of one cause
C13_Witness ==
    /\ last.op = "create" /\ last.engFail /\ last.prevCause = last.cause
    /\ last.stack # <<>> /\ binding = "web"

\* C14: the message stack retrieved after a failing call holds only messages
\* of that failure, none left over from an earlier one.
C14_StackOverwritten ==
    last.engFail =>
        \A i \in 1..Len(last.stack) :
            /\ last.stack[i].op = last.cause.op
            /\ last.stack[i].status = last.cause.status
            /\ last.stack[i].at = i

\* a create failed in the engine after a create that failed of another cause
C14_Witness ==
    /\ last.op = "create" /\ last.engFail /\ last.stack # <<>>
    /\ last.prevCause # NoCause /\ last.prevCause # last.cause
    /\ binding = "ios"

\* the device argument of the last create is present and outside the
\* grammar
BadDevice == last.device # {} /\ ~DeviceGrammar(Given(last.device))

C18_BadDeviceRejected ==
    (last.op = "create" /\ BadDevice) =>
        /\ last.errs # <<>>
        /\ last.native => last.errs = <<"InvalidArgumentError">>
        /\ handle = "unset"

\* C18, amended: the same for every device string outside the grammar
\* except the empty string given to the web binding, which stands for best.
C18_NonEmptyBadDeviceRejected ==
    (last.op = "create" /\ BadDevice
     /\ ~(binding = "web" /\ last.device = {<<>>})) =>
        /\ last.errs # <<>>
        /\ last.native => last.errs = <<"InvalidArgumentError">>
        /\ handle = "unset"

\* the native initialiser rejected the device string of the Android test
C18_Witness ==
    /\ last.op = "create" /\ last.device = {<<"i", "n", "v", ":", "9">>}
    /\ binding = "android" /\ last.native
    /\ last.errs = <<"InvalidArgumentError">> /\ handle = "unset"

(* C15: delay_samples is fixed at construction and is not negative: the
   create of an instance makes its delaySample query return the delay of
   the engine object, a value >= 0, and no process, reset or query step
   (any step that creates and deletes nothing) changes what the query
   returns for a live instance. *)
C15_DelayFixed ==
    [][\A i \in Insts :
        /\ (insts[i].st = "none" /\ insts'[i].st = "live")
              => /\ GetDelaySample(i)' = pv_koala_delay_sample(insts'[i].model)
                 /\ GetDelaySample(i)' >= 0
        /\ (insts[i].st = "live"
               /\ \A j \in Insts : insts'[j].st = insts[j].st)
              => GetDelaySample(i)' = GetDelaySample(i)]_vars

\* a query answered with the construction-time delay of the non-default
\* model after that instance has processed a frame
C15_Witness ==
    \E i \in Insts :
        /\ insts[i].st = "live"
        /\ insts[i].model = "other"
        /\ insts[i].eng # EngineOf(pv_koala_delay_sample("other"))
        /\ answer = [inst |-> i, value |-> pv_koala_delay_sample("other")]

(* C16: instances are independent: a step that leaves instance i's own
   state alone (an operation on the other instance) leaves what a
   delaySample query on the live instance i returns unchanged, and every step
   changes the state of at most one instance. *)
C16_Independent ==
    [][/\ \A i \in Insts :
            (insts[i].st = "live" /\ insts'[i] = insts[i])
               => GetDelaySample(i)' = GetDelaySample(i)
       /\ \E j \in Insts : \A i \in Insts \ {j} : insts'[i] = insts[i]]_vars

RECURSIVE WrittenLength(_)
WrittenLength(chunks) ==
    IF chunks = <<>> THEN 0 ELSE Head(chunks).n + WrittenLength(Tail(chunks))

\* the chunks written follow one another in the engine's output stream,
\* the first one starting at sample first
RECURSIVE Contiguous(_, _)
Contiguous(chunks, first) ==
    \/ chunks = <<>>
    \/ /\ Head(chunks).from = first
       /\ Head(chunks).n >= 0
       /\ Contiguous(Tail(chunks), first + Head(chunks).n)

(* C19: for every input file the file demo terminates, and unless the
   engine reported a failure it has then written exactly total_samples
   samples: the output file is as long as the input file. *)
C19_SameLength ==
    /\ <>(demo.pc # "loop")
    /\ [](demo.pc \in {"done", "aborted"}
            => WrittenLength(demo.written) = demo.in.total_samples)

(* C20: the file demo compensates the delay exactly: when it returns, the
   output file holds samples delay_samples .. delay_samples +
   total_samples - 1 of the engine's output stream in order (sample i of the
   file is sample i + delay_samples of the stream, the first delay_samples
   are discarded), the whole input has been read, and zeros were fed after
   it until the stream reached the end of the delayed tail. *)
C20_DelayCompensated ==
    demo.pc \in {"done", "aborted"}
       => /\ Contiguous(demo.written, demo.in.delay_samples)
          /\ demo.in.delay_samples + WrittenLength(demo.written)
                = demo.in.delay_samples + demo.in.total_samples
          /\ demo.read = demo.in.total_samples
          /\ demo.read + demo.zeros
                >= demo.in.total_samples + demo.in.delay_samples

(* C21: a new recording fed to an instance that has already processed
   frames is preceded by reset(): no recording of the demo apps begins its
   first process call on an engine that has processed frames since its
   creation or last reset. *)
C21_ResetBeforeNewSource == ~rec.unreset

(* C27: when a recording of the demo apps has been stopped, and no call
   failed during it, the enhanced file holds exactly as many samples as the
   reference file, whatever the number of frames recorded and the delay. *)
C27_FilesSameLength ==
    (rec.phase = "stopped" /\ ~rec.failed) => rec.enh = rec.total

(* C28: in the Android demo every stop() that has begun ends, the step in
   which stop() ends leaves started, stop and stopped all false, and never
   more than one reader thread is running. *)
C28_StopReturns ==
    /\ [](rec.ui = "stopping" => <>(rec.ui = "idle"))
    /\ [][(rec.ui = "stopping" /\ rec'.ui = "idle")
             => (~rec'.started /\ ~rec'.stop /\ ~rec'.stopped)]_vars
    /\ [](rec.readers <= 1)

(* C22: in the web binding multi-threading is enabled only on a web worker:
   an instance created on the main thread never runs on the WASM module
   built with threads, whatever device was requested. *)
C22_MainThreadSingleThreaded ==
    (binding = "web" /\ last.op = "create" /\ last.errs = <<>>
        /\ handle = "live" /\ ~last.worker)
       => last.module # "pthread"

(* C23: in the web binding every process() call that has completed led to
   exactly one callback: processCallback with one enhanced frame, or
   processErrorCallback with one error; never both, never neither. *)
C23_OneCallback ==
    (binding \in WebBindings /\ last.op = "process")
       => Len(last.errs) + last.frames = 1

(* C24: in the web binding release() destroys the native object only when
   no process or reset call of the instance is executing or queued: no step
   runs the native destructor while a call is waiting for the mutex or is
   inside the engine. *)
C24_ReleaseSerialized ==
    [][(binding \in WebBindings /\ destroyed' > destroyed)
          => (waiting = <<>> /\ active = <<>>)]_vars

(* C25: in the web binding the frames reach processCallback in the order   *)
(* in which their process() calls were issued, also when calls are issued  *)
(* while earlier ones are still waiting or running, and the native calls   *)
(* of process() and reset() run in issue order, so that the frames are     *)
(* those of running each call to its end before the next.                  *)
OrdCompleted == Len(ord.issued) - Len(ord.waiting) - Len(ord.active)
C25_IssueOrder ==
    ord.phase = "on" =>
        /\ ord.applied = [i \in 1..OrdCompleted |-> i]
        /\ [i \in 1..Len(ord.delivered) |-> ord.delivered[i].id]
              = SelectSeq(ord.applied,
                          LAMBDA i : ord.issued[i].op = "process")
        /\ ~ord.failed =>
              [i \in 1..Len(ord.delivered) |-> ord.delivered[i].frame]
                = SerialRun(EngineInit, SubSeq(ord.issued, 1, OrdCompleted))
\* three calls were issued without waiting, two of them waited together,
\* a reset stood between two process calls, and all have finished
C25_Witness ==
    /\ ord.phase = "on" /\ ord.depth >= 2 /\ ~ord.failed
    /\ Len(ord.issued) = 3 /\ OrdCompleted = 3
    /\ ord.issued[1].op = "process"
    /\ ord.issued[2].op = "reset"
    /\ ord.issued[3].op = "process"
    /\ Len(ord.delivered) = 2
    /\ ord.delivered[2].frame
         = pv_koala_process(EngineInit, ord.issued[3].pcm).out
    /\ ord.delivered[2].frame
         # pv_koala_process(pv_koala_process(EngineInit,
                                             ord.issued[1].pcm).eng,
                            ord.issued[3].pcm).out

(* C26: the web worker handler holds at most one engine instance and       *)
(* rejects commands that do not fit its state: 'init' while an instance    *)
(* exists, and 'process' or 'reset' while none exists (before init or      *)
(* after release), are each answered with an INVALID_STATE error message   *)
(* and leave the handler's instance unchanged.                             *)
HndMisfit ==
    /\ hnd'.seen = hnd.seen + 1
    /\ \/ hnd'.cmd = "init" /\ hnd.koala # Null
       \/ hnd'.cmd \in {"process", "reset"} /\ hnd.koala = Null
HndHoldsOne == hnd.koala \in {Null} \cup hnd.live
C26_MisfitRejected ==
    [][/\ HndHoldsOne'
       /\ HndMisfit =>
             /\ hnd'.posted = <<[command |-> "error",
                                 status |-> "INVALID_STATE"]>>
             /\ hnd'.koala = hnd.koala]_vars

(* C26, amended: the misfitting command is answered with an error message  *)
(* that carries status INVALID_STATE in the current handler and only a     *)
(* text in the earlier one, and the instance stays as it is; a worker that *)
(* has closed itself after releasing its instance answers nothing.         *)
C26_MisfitRejectedWhileOpen ==
    [][/\ HndHoldsOne'
       /\ HndMisfit =>
             /\ hnd'.koala = hnd.koala
             /\ hnd'.posted =
                   IF hnd.closed THEN <<>>
                   ELSE <<[command |-> "error",
                           status |-> IF hnd.version = "web"
                                      THEN "INVALID_STATE"
                                      ELSE "none"]>>]_vars
\* the current handler holds an instance and has just answered a second
\* 'init' with INVALID_STATE, after having rejected a command before init
C26_Witness ==
    /\ hnd.cmd = "init" /\ hnd.version = "web" /\ hnd.koala # Null
    /\ hnd.posted = <<[command |-> "error", status |-> "INVALID_STATE"]>>
    /\ hnd.seen >= 3 /\ hnd.initing = 0

(* C29: after delete/release no binding operation passes the destroyed    *)
(* handle, or a null handle, to the native library: every operation that   *)
(* needs the handle, the delay query and a repeated release included, is   *)
(* guarded.                                                                *)
C29_NoNativeAfterDelete == last.onDeleted => ~last.native

(* C30: every failure reported by a binding keeps its error kind and its   *)
(* diagnostic stack: a non-success engine status is reported as the error  *)
(* kind of that status, carrying the message stack retrieved for that      *)
(* failure, and an error raised inside the binding reaches the caller with *)
(* its own kind (invalid argument, invalid state, IO, runtime).            *)
EngineKindKept ==
    /\ last.errs # <<>>
    /\ last.errs[Len(last.errs)] =
          CASE last.cause.status = "ACTIVATION_ERROR" -> "ActivationError"
            [] last.cause.status = "INVALID_ARGUMENT" -> "InvalidArgumentError"
            [] last.cause.status = "RUNTIME_ERROR" -> "RuntimeError"
            [] last.cause.status = "INVALID_STATE" -> "InvalidStateError"
            [] OTHER -> "none"
    /\ last.stack # <<>>
    /\ \A i \in 1..Len(last.stack) :
          /\ last.stack[i].op = last.cause.op
          /\ last.stack[i].status = last.cause.status
BindingKindKept ==
    \A i \in 1..Len(last.errs) :
        last.errs[i] \in {"InvalidArgumentError", "InvalidStateError",
                          "IOError", "RuntimeError"}
====
